---- MODULE Spec2Model ----
(***************************************************************************)
(* sineart: the implicit-curve rasterizer (curves.rs), the quarter-sine    *)
(* composition (curves/sine.rs), the canvas (canvas.rs) and the plotter    *)
(* geometry (plotter.rs), as state machines.                               *)
(*                                                                         *)
(* f64 quantities (QuarterSine::equation) are carried in fixed point, in   *)
(* units of 1/Scale.  Wherever the f64 result could fall on either side of *)
(* a comparison or of a truncation because of rounding, the model takes    *)
(* both outcomes (see Tol).                                                *)
(***************************************************************************)
EXTENDS Integers, Sequences, FiniteSets, TLC

\* ------------------------------------------------------------------ bounds
\* Points of the rasterizer's inputs have coordinates in 0..MaxCoord.
MaxCoord == 4
\* Amplitudes of the quarter sines drawn directly are in 0..MaxAmp.
MaxAmp == 2
\* Source images are 1..MaxSourceWidth wide and 1..MaxSourceHeight high.
MaxSourceWidth == 6
MaxSourceHeight == 2
\* A thick draw has an extent in 0..MaxThickness.
MaxThickness == 1
\* num_oscillations of a SineWave is in 0..MaxOscillations.
MaxOscillations == 2

\* Side of the (square) canvas the curves are drawn on: every input point fits.
CanvasSide == MaxCoord + 1
\* Quarter wavelengths the sine table covers.
QuarterWavelengths == {1, 2, 3}
\* Grid widths and heights, scale percents, brightness ceilings and pixel
\* values of the plotter's inputs.
GridSizes == {1, 2}
Scales == {50, 100}
Thresholds == {128, 255}
Pixels == {0, 255}

\* ------------------------------------------------------- integer conversions
\* A u32 is carried as the i32 that has the same 32 bits (2^32 - k as -k): the
\* model checker's integers are 32 bits wide.  The casts `as u32` and `as i32` keep
\* the bits, and so do the wrapping sums; what differs between the two types is
\* the order, which for u32 is u32_lt.
u32_lt(a, b) == IF (a < 0) = (b < 0) THEN a < b ELSE b < 0
u32_le(a, b) == a = b \/ u32_lt(a, b)
Abs(v) == IF v < 0 THEN -v ELSE v
\* std::cmp::min, num's abs and max on the integers
Min2(a, b) == IF a < b THEN a ELSE b
Max2(a, b) == IF a > b THEN a ELSE b
\* f64 sqrt followed by to_i32: the integer square root, for the small values here.
ISqrt(n) == CHOOSE r \in 0..n : r * r <= n /\ (r + 1) * (r + 1) > n

\* -------------------------------------------------------------------- Point
Point(x, y) == [x |-> x, y |-> y]
Coords == 0..MaxCoord
Points == {Point(x, y) : x \in Coords, y \in Coords}

\* -------------------------------------------------------------------- Slope
Slopes == {"NorthEast", "SouthEast", "SouthWest", "NorthWest"}

Slope_next_reversed(slope, point) ==
    LET x == point.x
        y == point.y
    IN  CASE slope = "NorthEast" -> <<Point(x + 1, y), Point(x + 1, y + 1), Point(x, y + 1)>>
          [] slope = "SouthEast" -> <<Point(x, y - 1), Point(x + 1, y - 1), Point(x + 1, y)>>
          [] slope = "SouthWest" -> <<Point(x - 1, y), Point(x - 1, y - 1), Point(x, y - 1)>>
          [] slope = "NorthWest" -> <<Point(x, y + 1), Point(x - 1, y + 1), Point(x - 1, y)>>

\* Slope::next: the three candidate points, in the order of the source.
Slope_next(slope, point) ==
    LET x == point.x
        y == point.y
    IN  CASE slope = "NorthEast" -> <<Point(x, y + 1), Point(x + 1, y + 1), Point(x + 1, y)>>
          [] slope = "SouthEast" -> <<Point(x + 1, y), Point(x + 1, y - 1), Point(x, y - 1)>>
          [] slope = "SouthWest" -> <<Point(x, y - 1), Point(x - 1, y - 1), Point(x - 1, y)>>
          [] slope = "NorthWest" -> <<Point(x - 1, y), Point(x - 1, y + 1), Point(x, y + 1)>>

Slope_between_swapped(start, stop) ==
    IF start.x < stop.x
    THEN IF start.y < stop.y THEN "NorthEast" ELSE "SouthEast"
    ELSE IF start.y < stop.y THEN "SouthWest" ELSE "NorthWest"

Slope_between_inclusive(start, stop) ==
    IF start.x <= stop.x
    THEN IF start.y <= stop.y THEN "NorthEast" ELSE "SouthEast"
    ELSE IF start.y <= stop.y THEN "NorthWest" ELSE "SouthWest"

\* Slope::between
Slope_between(start, stop) ==
    IF start.x < stop.x
    THEN IF start.y < stop.y THEN "NorthEast" ELSE "SouthEast"
    ELSE IF start.y < stop.y THEN "NorthWest" ELSE "SouthWest"

\* --------------------------------------------------------------- AngledLine
\* AngledLine::new.  The curve record is shared with QuarterSine; the fields a
\* kind does not have are 0 / "None".
AngledLine_new(start, stop) ==
    LET dx == stop.x - start.x
        dy == stop.y - start.y
    IN  [kind |-> "AngledLine", start |-> start, stop |-> stop,
         dx |-> dx, dy |-> dy, aa_threshold |-> ISqrt(dx * dx + dy * dy),
         quadrant |-> "None", amplitude |-> 0, quarter_wavelength |-> 0]

AngledLine_equation_sign(c, point) ==
    c.dx * (point.y - c.start.y) + (point.x - c.start.x) * c.dy

\* AngledLine::equation
AngledLine_equation(c, point) ==
    c.dx * (point.y - c.start.y) - (point.x - c.start.x) * c.dy

\* -------------------------------------------------------------- QuarterSine
\* Fixed-point unit of the f64 quantities: one is Scale.
Scale == 10 ^ 6
\* std::f64::consts::PI, in units of 1/Scale.
PiMicro == 3141593
Quadrants == {"First", "Second", "Third", "Fourth"}

\* sin(k*PI/(2*W)) for k in 0..W, rounded to 1/Scale; index k + 1.
SinTable ==
    [W \in 1..4 |->
        CASE W = 1 -> <<0, 1000000>>
          [] W = 2 -> <<0, 707107, 1000000>>
          [] W = 3 -> <<0, 500000, 866025, 1000000>>
          [] W = 4 -> <<0, 382683, 707107, 923880, 1000000>>]

\* sin(x*PI/(2*W)) for any integer x, by the symmetries of the sine.
SinMicro(x, W) ==
    LET k == x % (4 * W)
    IN  IF k <= W THEN SinTable[W][k + 1]
        ELSE IF k <= 2 * W THEN SinTable[W][2 * W - k + 1]
        ELSE IF k <= 3 * W THEN -SinTable[W][k - 2 * W + 1]
        ELSE -SinTable[W][4 * W - k + 1]

\* cos(x*PI/(2*W))
CosMicro(x, W) == SinMicro(x + W, W)

SineQuadrant_stop_down(quadrant, start, quarter_wavelength, amplitude) ==
    LET dy == -amplitude
    IN  Point(start.x + quarter_wavelength, start.y + dy)

\* SineQuadrant::stop
SineQuadrant_stop(quadrant, start, quarter_wavelength, amplitude) ==
    LET dy == CASE quadrant = "First" -> amplitude
                [] quadrant = "Second" -> -amplitude
                [] quadrant = "Third" -> -amplitude
                [] quadrant = "Fourth" -> amplitude
    IN  Point(start.x + quarter_wavelength, start.y + dy)

\* QuarterSine::new
QuarterSine_new(start, quadrant, amplitude, quarter_wavelength) ==
    [kind |-> "QuarterSine", start |-> start,
     stop |-> SineQuadrant_stop(quadrant, start, quarter_wavelength, amplitude),
     dx |-> 0, dy |-> 0, aa_threshold |-> 0,
     quadrant |-> quadrant, amplitude |-> amplitude,
     quarter_wavelength |-> quarter_wavelength]

\* QuarterSine::equation_aux, in units of 1/Scale.
QuarterSine_equation_aux(c, x, y) ==
    LET A == c.amplitude
        W == c.quarter_wavelength
    IN  CASE c.quadrant = "First" -> y * Scale - A * SinMicro(x, W)
          [] c.quadrant = "Second" -> y * Scale - A * (CosMicro(x, W) - Scale)
          [] c.quadrant = "Third" -> y * Scale + A * SinMicro(x, W)
          [] c.quadrant = "Fourth" -> y * Scale + A * (CosMicro(x, W) - Scale)

\* QuarterSine::equation
QuarterSine_equation(c, point) ==
    QuarterSine_equation_aux(c, point.x - c.start.x,
                                point.y - c.start.y)

\* -------------------------------------------------------------------- Curve
\* Curve::equation, dispatched on the implementing type.
equation(c, point) ==
    IF c.kind = "AngledLine" THEN AngledLine_equation(c, point)
    ELSE QuarterSine_equation(c, point)

\* Curve::antialiased_threshold, in the unit of equation.
antialiased_threshold(c) ==
    IF c.kind = "AngledLine" THEN c.aa_threshold ELSE PiMicro

\* How far the fixed-point value of equation(point) may be from the f64 the
\* code computes: the table's rounding (half a unit) times the amplitude.  An
\* i32 equation is exact, and so is the f64 where the amplitude is 0 or the
\* sine is computed exactly: sin(0) = 0.0 and sin(PI/2) = 1.0 at the two ends
\* of a First or Third quarter, cos(0) - 1 = 0.0 at the start of a Second or
\* Fourth.  (At their stop cos(PI/2) - 1 is -0.9999999999999999 in f64.)
Tol(c, point) ==
    IF c.kind = "AngledLine" \/ c.amplitude = 0 THEN 0
    ELSE LET x == point.x - c.start.x
         IN  IF x = 0 \/ (x = c.quarter_wavelength /\ c.quadrant \in {"First", "Third"})
             THEN 0 ELSE c.amplitude

\* ToPrimitive::to_u32 of |equation(point)|: the value (i32), or its integer
\* part (f64), which rounding may put on either side of an integer.
value_to_u32(c, point) ==
    LET value == Abs(equation(c, point))
    IN  IF c.kind = "AngledLine" THEN {value}
        ELSE {Max2(value - Tol(c, point), 0) \div Scale, (value + Tol(c, point)) \div Scale}

threshold_to_u32(c) ==
    IF c.kind = "AngledLine" THEN c.aa_threshold ELSE PiMicro \div Scale

antialiased_value_unclamped(c, point) ==
    LET value == Abs(equation(c, point))
        t32 == threshold_to_u32(c)
    IN  { IF t32 = 0 THEN [ok |-> FALSE, v |-> 0]
          ELSE [ok |-> TRUE, v |-> ((u * 255) \div t32) % 256]
          : u \in value_to_u32(c, point) }

\* Curve::antialiased_value: the outcomes the call can have, ok = FALSE being
\* the division by a zero threshold.
antialiased_value(c, point) ==
    LET value == Abs(equation(c, point))
        threshold == antialiased_threshold(c)
        t32 == threshold_to_u32(c)
    IN  IF value > threshold THEN {[ok |-> TRUE, v |-> 255]}
        ELSE { IF t32 = 0 THEN [ok |-> FALSE, v |-> 0]
               ELSE [ok |-> TRUE, v |-> ((u * 255) \div t32) % 256]
               : u \in value_to_u32(c, point) }

\* Whether |equation(a)| may compare less than |equation(b)| (strict), or not
\* greater (otherwise): as the values do when both are exact, and either way
\* when they are closer than the rounding they carry.
may_precede(c, a, b, strict) ==
    LET fa == Abs(equation(c, a))
        fb == Abs(equation(c, b))
        t == Tol(c, a) + Tol(c, b)
    IN  IF t = 0 THEN (IF strict THEN fa < fb ELSE fa <= fb)
        ELSE fa - t < fb

min_by_last(c, cands) ==
    { cands[i] : i \in { i \in 1..3 :
        \A j \in (1..3) \ {i} : may_precede(c, cands[i], cands[j], j > i) } }

\* The points `.map(|p| (p, equation(p).abs())).min_by(partial_cmp)` can return:
\* the first of the candidates with the smallest |equation|.
min_by(c, cands) ==
    { cands[i] : i \in { i \in 1..3 :
        \A j \in (1..3) \ {i} : may_precede(c, cands[i], cands[j], j < i) } }

\* --------------------------------------------------------------------- Sine
\* Sine::new
Sine_new(start, amplitude, quarter_wavelength) ==
    [start |-> start, amplitude |-> amplitude, quarter_wavelength |-> quarter_wavelength]

\* Sine::stop
Sine_stop(s) == Point(s.start.x + 4 * s.quarter_wavelength, s.start.y)

\* Sine::next
Sine_next(s) == Sine_new(Sine_stop(s), s.amplitude, s.quarter_wavelength)

\* Sine::quarters
Sine_quarters(s) ==
    LET q1 == QuarterSine_new(s.start, "First", s.amplitude, s.quarter_wavelength)
        q2 == QuarterSine_new(q1.stop, "Second", s.amplitude, s.quarter_wavelength)
        q3 == QuarterSine_new(q2.stop, "Third", s.amplitude, s.quarter_wavelength)
        q4 == QuarterSine_new(q3.stop, "Fourth", s.amplitude, s.quarter_wavelength)
    IN  <<q1, q2, q3, q4>>

\* ------------------------------------------------------------------- Canvas
\* The image is kept as the pixels written so far, by raster position
\* <<column, row>>; a pixel never written holds the fill value.
Fill == 255
Pixel(cv, q) == IF q \in DOMAIN cv.image THEN cv.image[q] ELSE Fill

put_pixel(cv, col, row, value) ==
    [cv EXCEPT !.image = [q \in DOMAIN cv.image \cup {<<col, row>>} |->
                            IF q = <<col, row>> THEN value ELSE cv.image[q]]]

\* Canvas::new of curves.rs: a width x height image filled with 255.
Canvas_new(width, height) ==
    [api |-> "Canvas", fw |-> width, fh |-> height, iw |-> width, ih |-> height,
     ow |-> 0, oh |-> 0, image |-> <<>>]

\* Canvas::new of canvas.rs: a full image with a centred inner region.
XYCanvas_new(full_hw, inner_hw) ==
    [api |-> "XYDrawable", fh |-> full_hw[1], fw |-> full_hw[2],
     ih |-> inner_hw[1], iw |-> inner_hw[2],
     oh |-> (full_hw[1] - inner_hw[1]) \div 2,
     ow |-> (full_hw[2] - inner_hw[2]) \div 2, image |-> <<>>]

\* Canvas::set of curves.rs: put_pixel(x, width - y - 1), which panics outside
\* the image.  The u32 subtraction wraps (or panics, in a debug build, where
\* the wrapped row is outside the image too as long as width <= height).
Canvas_set(cv, x, y, value) ==
    LET col == x
        row == cv.fw - y - 1
    IN  IF u32_lt(col, cv.fw) /\ u32_lt(row, cv.fh)
        THEN [ok |-> TRUE, canvas |-> put_pixel(cv, col, row, value)]
        ELSE [ok |-> FALSE, canvas |-> cv]

\* XYDrawable::set_xy of canvas.rs: put_pixel(x + ow, fh - 1 - y - oh).
set_xy(cv, x, y, value) ==
    LET col == x + cv.ow
        row == cv.fh - 1 - y - cv.oh
    IN  IF u32_lt(col, cv.fw) /\ u32_lt(row, cv.fh)
        THEN [ok |-> TRUE, canvas |-> put_pixel(cv, col, row, value)]
        ELSE [ok |-> FALSE, canvas |-> cv]

\* One pixel write of the rasterizer at a point: canvas.set(p.x as u32,
\* p.y as u32, value) on the Canvas of curves.rs, set_point on an XYDrawable.
set_point(cv, point, value) ==
    IF cv.api = "Canvas" THEN Canvas_set(cv, point.x, point.y, value)
    ELSE set_xy(cv, point.x, point.y, value)

\* u32::saturating_sub
saturating_sub(a, b) == IF u32_lt(a, b) THEN 0 ELSE a - b

\* XYDrawable::set_horizontal_line: set_xy for x in
\* point.x.saturating_sub(extent)..=point.x + extent, stopping at the first
\* write that panics.
RECURSIVE set_horizontal_from(_, _, _, _, _)
set_horizontal_from(cv, x, last, y, value) ==
    IF u32_lt(last, x) THEN [ok |-> TRUE, canvas |-> cv]
    ELSE LET r == set_xy(cv, x, y, value)
         IN  IF r.ok THEN set_horizontal_from(r.canvas, x + 1, last, y, value)
             ELSE r

set_horizontal_line(cv, point, value, extent) ==
    set_horizontal_from(cv, saturating_sub(point.x, extent),
                        point.x + extent, point.y, value)

\* ------------------------------------------------------------------ Plotter
Plotter_new_no_closing_column(nw, nh, source_width, source_height, scale, threshold) ==
    LET nw_scale == nw * 4
        target_width == (((source_width * scale) \div 100) \div nw_scale + 1) * nw_scale
        target_height == (source_height * target_width) \div source_width
        border == Min2((target_height * 5) \div 100, (target_width * 5) \div 100)
    IN  [canvas |-> XYCanvas_new(<<target_height + border, target_width + border>>,
                                 <<target_height, target_width>>),
         source_width |-> nw, source_height |-> nh, threshold |-> threshold]

\* Plotter::new, for a source image of source_width x source_height pixels:
\* the canvas, and the source resized to nw x nh.
Plotter_new(nw, nh, source_width, source_height, scale, threshold) ==
    LET nw_scale == nw * 4
        target_width == (((source_width * scale) \div 100) \div nw_scale + 1) * nw_scale + 1
        target_height == (source_height * target_width) \div source_width
        border == Min2((target_height * 5) \div 100, (target_width * 5) \div 100)
    IN  [canvas |-> XYCanvas_new(<<target_height + border, target_width + border>>,
                                 <<target_height, target_width>>),
         source_width |-> nw, source_height |-> nh, threshold |-> threshold]

\* Plotter::cell_height
cell_height(pl, cv) == cv.ih \div pl.source_height

\* Plotter::cell_width
cell_width(pl, cv) == (cv.iw - 1) \div pl.source_width

\* Plotter::max_amplitude
max_amplitude(pl, cv) == (cell_height(pl, cv) * 9) \div 20

\* Plotter::quarter_wavelength
quarter_wavelength(pl, cv) == cell_width(pl, cv) \div 4

\* Plotter::cell_to_sine_start_y
cell_to_sine_start_y(pl, cv, cell_y) ==
    ((cv.ih \div 2) + cv.ih * (pl.source_height - cell_y - 1)) \div pl.source_height

get_pixel_as_u32_max(pl, pixel) == Max2(pixel, pl.threshold)

\* Plotter::get_pixel_as_u32, for the source's pixel at (x, y)
get_pixel_as_u32(pl, pixel) == Min2(pixel, pl.threshold)

\* Plotter::draw, line 84: the amplitude of a cell
draw_amplitude(pl, cv, pixel) ==
    max_amplitude(pl, cv) - (max_amplitude(pl, cv) * get_pixel_as_u32(pl, pixel)) \div 255

\* ------------------------------------------------------------------- state
VARIABLES
    canvas,     \* the canvas drawn on
    op,         \* the Drawable method running: "draw", "draw_antialiased", "draw_thick"
    curve,      \* the curve being drawn (self)
    slope,      \* the local `slope` of the draw
    current,    \* the local `current` of the draw
    pc,         \* "idle", "ready" (called), "loop", "done" (returned), "panic"
    err,        \* the panic, "none" until one happens
    writes,     \* the pixel writes the running draw has made, in order
    thickness,  \* the extent of a thick draw
    sine,       \* the Sine being drawn
    quarters,   \* its four QuarterSine, once built
    qi,         \* the index of the quarter being drawn, 0 before
    plotter,    \* the Plotter's fields, but its canvas
    cell,       \* the locals of Plotter::draw
    ppc,        \* where the Plotter is: "idle", "new", "cell", "drawing", "done"
    wave,       \* the SineWave being drawn (self)
    wi,         \* the turns its for loop has begun
    periods,    \* the calls of Sine's draw that have returned to it
    wpc         \* where the SineWave's draw is: "idle", "drawing", "done"

vars == <<canvas, op, curve, slope, current, pc, err, writes, thickness,
          sine, quarters, qi, plotter, cell, ppc, wave, wi, periods, wpc>>

walkVars == <<op, curve, slope, current, pc, err, writes>>
sineVars == <<sine, quarters, qi>>
plotVars == <<plotter, cell, ppc, thickness>>
waveVars == <<wave, wi, periods, wpc>>

NoPoint == Point(0, 0)
NoCurve == AngledLine_new(NoPoint, NoPoint)
NoSine == [start |-> NoPoint, amplitude |-> 0, quarter_wavelength |-> 0]
NoPlotter == [source_width |-> 1, source_height |-> 1, threshold |-> 0]
NoWave == [start |-> NoPoint, amplitude |-> 0, quarter_wavelength |-> 0,
           num_oscillations |-> 0]
NoCell == [cell_x |-> 0, cell_y |-> 0, pixel |-> 0, x |-> 0, y |-> 0, a |-> 0]

Written(point, value) == [x |-> point.x, y |-> point.y, v |-> value]

\* ----------------------------------------------------------------- Drawable
\* draw, lines 123-124: the locals, before the loop.
DrawBegin ==
    /\ pc = "ready" /\ op = "draw"
    /\ current' = curve.start
    /\ slope' = Slope_between(curve.start, curve.stop)
    /\ pc' = "loop"
    /\ UNCHANGED <<canvas, op, curve, err, writes>>

\* draw, lines 126-135: one turn of the loop.
DrawStep ==
    /\ pc = "loop" /\ op = "draw"
    /\ current # curve.stop
    /\ LET r == set_point(canvas, current, 0)
       IN  IF ~r.ok
           THEN /\ pc' = "panic" /\ err' = "put_pixel out of bounds"
                /\ UNCHANGED <<canvas, current, writes>>
           ELSE /\ canvas' = r.canvas
                /\ writes' = Append(writes, Written(current, 0))
                /\ current' \in min_by(curve, Slope_next(slope, current))
                /\ UNCHANGED <<pc, err>>
    /\ UNCHANGED <<op, curve, slope>>

\* draw, line 136: the loop has ended, the last point is written.
DrawEnd ==
    /\ pc = "loop" /\ op = "draw"
    /\ current = curve.stop
    /\ LET r == set_point(canvas, current, 0)
       IN  IF ~r.ok
           THEN /\ pc' = "panic" /\ err' = "put_pixel out of bounds"
                /\ UNCHANGED <<canvas, writes>>
           ELSE /\ canvas' = r.canvas
                /\ writes' = Append(writes, Written(current, 0))
                /\ pc' = "done" /\ UNCHANGED err
    /\ UNCHANGED <<op, curve, slope, current>>

\* canvas.set(p.x as u32, p.y as u32, self.antialiased_value(p)) for each point
\* of pts in turn: the states it can end in.  The value is computed first.
RECURSIVE set_antialiased(_, _, _, _)
set_antialiased(cv, wr, c, pts) ==
    IF pts = <<>> THEN {[canvas |-> cv, writes |-> wr, err |-> "none"]}
    ELSE UNION {
        IF ~o.ok
        THEN {[canvas |-> cv, writes |-> wr, err |-> "attempt to divide by zero"]}
        ELSE LET r == set_point(cv, Head(pts), o.v)
             IN  IF ~r.ok
                 THEN {[canvas |-> cv, writes |-> wr, err |-> "put_pixel out of bounds"]}
                 ELSE set_antialiased(r.canvas, Append(wr, Written(Head(pts), o.v)),
                                      c, Tail(pts))
        : o \in antialiased_value(c, Head(pts)) }

\* draw_antialiased, lines 140-147: the locals and the start point's pixel.
AntialiasedBegin ==
    /\ pc = "ready" /\ op = "draw_antialiased"
    /\ current' = curve.start
    /\ slope' = Slope_between(curve.start, curve.stop)
    /\ \E r \in set_antialiased(canvas, writes, curve, <<curve.start>>) :
          /\ canvas' = r.canvas
          /\ writes' = r.writes
          /\ err' = r.err
          /\ pc' = IF r.err = "none" THEN "loop" ELSE "panic"
    /\ UNCHANGED <<op, curve>>

\* draw_antialiased, lines 149-161: one turn of the loop.
AntialiasedStep ==
    /\ pc = "loop" /\ op = "draw_antialiased"
    /\ current # curve.stop
    /\ LET next == Slope_next(slope, current)
       IN  \E r \in set_antialiased(canvas, writes, curve, next) :
              /\ canvas' = r.canvas
              /\ writes' = r.writes
              /\ err' = r.err
              /\ IF r.err = "none"
                 THEN current' \in min_by(curve, next) /\ UNCHANGED pc
                 ELSE pc' = "panic" /\ UNCHANGED current
    /\ UNCHANGED <<op, curve, slope>>

\* draw_antialiased, line 149 then 162: the loop has ended.
AntialiasedEnd ==
    /\ pc = "loop" /\ op = "draw_antialiased"
    /\ current = curve.stop
    /\ pc' = "done"
    /\ UNCHANGED <<canvas, op, curve, slope, current, err, writes>>

\* ------------------------------------------------ drawing one curve (Spec)
Lines == {AngledLine_new(a, b) : a \in Points, b \in Points}
QuarterSines ==
    {QuarterSine_new(a, q, A, W) :
        a \in Points, q \in Quadrants, A \in 0..MaxAmp, W \in QuarterWavelengths}

\* A curve has been built and one of its Drawable methods is called on a fresh
\* canvas.
Init ==
    /\ canvas = Canvas_new(CanvasSide, CanvasSide)
    /\ curve \in Lines \cup QuarterSines
    /\ op \in {"draw", "draw_antialiased"}
    /\ pc = "ready"
    /\ slope = "NorthEast"
    /\ current = NoPoint
    /\ err = "none"
    /\ writes = <<>>
    /\ thickness = 0
    /\ sine = NoSine /\ quarters = <<>> /\ qi = 0
    /\ plotter = NoPlotter /\ cell = NoCell /\ ppc = "idle"
    /\ wave = NoWave /\ wi = 0 /\ periods = 0 /\ wpc = "idle"

Next ==
    \/ DrawBegin /\ UNCHANGED <<sineVars, plotVars, waveVars>>
    \/ DrawStep /\ UNCHANGED <<sineVars, plotVars, waveVars>>
    \/ DrawEnd /\ UNCHANGED <<sineVars, plotVars, waveVars>>
    \/ AntialiasedBegin /\ UNCHANGED <<sineVars, plotVars, waveVars>>
    \/ AntialiasedStep /\ UNCHANGED <<sineVars, plotVars, waveVars>>
    \/ AntialiasedEnd /\ UNCHANGED <<sineVars, plotVars, waveVars>>

Spec == Init /\ [][Next]_vars

\* ------------------------------------------- drawing one Sine (SpecSine)
\* Sine::draw, line 132: the quarters are built and the first is drawn.
SineQuarters ==
    /\ qi = 0 /\ pc = "idle"
    /\ quarters' = Sine_quarters(sine)
    /\ qi' = 1
    /\ curve' = quarters'[1]
    /\ pc' = "ready"
    /\ writes' = <<>>
    /\ UNCHANGED <<canvas, op, slope, current, err, sine>>

\* The for loop of Sine::draw: the next quarter is drawn.
SineNextQuarter ==
    /\ qi \in 1..3 /\ pc = "done"
    /\ qi' = qi + 1
    /\ curve' = quarters[qi + 1]
    /\ pc' = "ready"
    /\ writes' = <<>>
    /\ UNCHANGED <<canvas, op, slope, current, err, sine, quarters>>

\* The for loop has ended: Sine::draw returns.
SineDone ==
    /\ qi = 4 /\ pc = "done"
    /\ qi' = 5
    /\ pc' = "idle"
    /\ UNCHANGED <<canvas, op, curve, slope, current, err, writes, sine, quarters>>

\* Width of the canvas a Sine is drawn on: a full period from any start fits.
SineCanvasWidth == CanvasSide + 4 * 3

\* A Sine has been built and its draw is called on a fresh canvas without
\* border.
InitSine ==
    /\ canvas = XYCanvas_new(<<CanvasSide, SineCanvasWidth>>, <<CanvasSide, SineCanvasWidth>>)
    /\ sine \in {Sine_new(a, A, W) : a \in Points, A \in 0..MaxAmp, W \in QuarterWavelengths}
    /\ op = "draw"
    /\ quarters = <<>> /\ qi = 0
    /\ pc = "idle"
    /\ curve = NoCurve
    /\ slope = "NorthEast"
    /\ current = NoPoint
    /\ err = "none"
    /\ writes = <<>>
    /\ thickness = 0
    /\ plotter = NoPlotter /\ cell = NoCell /\ ppc = "idle"
    /\ wave = NoWave /\ wi = 0 /\ periods = 0 /\ wpc = "idle"

NextSine ==
    \/ SineQuarters /\ UNCHANGED <<plotVars, waveVars>>
    \/ SineNextQuarter /\ UNCHANGED <<plotVars, waveVars>>
    \/ SineDone /\ UNCHANGED <<plotVars, waveVars>>
    \/ DrawBegin /\ UNCHANGED <<sineVars, plotVars, waveVars>>
    \/ DrawStep /\ UNCHANGED <<sineVars, plotVars, waveVars>>
    \/ DrawEnd /\ UNCHANGED <<sineVars, plotVars, waveVars>>

SpecSine == InitSine /\ [][NextSine]_vars

\* ------------------------------------------ Plotter::draw (SpecPlot)
\* draw_thick of a curve: the walk of draw, a horizontal run of pixels of the
\* given extent written at each visited point.
ThickBegin ==
    /\ pc = "ready" /\ op = "draw_thick"
    /\ current' = curve.start
    /\ slope' = Slope_between(curve.start, curve.stop)
    /\ pc' = "loop"
    /\ UNCHANGED <<canvas, op, curve, err, writes>>

ThickStep ==
    /\ pc = "loop" /\ op = "draw_thick"
    /\ current # curve.stop
    /\ LET r == set_horizontal_line(canvas, current, 0, thickness)
       IN  /\ canvas' = r.canvas
           /\ IF ~r.ok
              THEN /\ pc' = "panic" /\ err' = "put_pixel out of bounds"
                   /\ UNCHANGED <<current, writes>>
              ELSE /\ writes' = Append(writes, Written(current, 0))
                   /\ current' \in min_by(curve, Slope_next(slope, current))
                   /\ UNCHANGED <<pc, err>>
    /\ UNCHANGED <<op, curve, slope>>

ThickEnd ==
    /\ pc = "loop" /\ op = "draw_thick"
    /\ current = curve.stop
    /\ LET r == set_horizontal_line(canvas, current, 0, thickness)
       IN  /\ canvas' = r.canvas
           /\ IF ~r.ok
              THEN /\ pc' = "panic" /\ err' = "put_pixel out of bounds"
                   /\ UNCHANGED writes
              ELSE /\ writes' = Append(writes, Written(current, 0))
                   /\ pc' = "done" /\ UNCHANGED err
    /\ UNCHANGED <<op, curve, slope, current>>

\* Plotter::draw, lines 78-86: the next cell of the two for loops; its wave is
\* built and its draw_thick called.  The source's pixel is any value.
PlotCell ==
    /\ \/ ppc = "ready"
       \/ /\ ppc = "drawing" /\ qi = 5
          /\ \/ cell.cell_x + 1 < plotter.source_width
             \/ cell.cell_y + 1 < plotter.source_height
    /\ LET first == ppc = "ready"
           wrap == ~first /\ cell.cell_x + 1 >= plotter.source_width
           cell_x == IF first \/ wrap THEN 0 ELSE cell.cell_x + 1
           cell_y == IF first THEN 0 ELSE IF wrap THEN cell.cell_y + 1 ELSE cell.cell_y
           x == cell_width(plotter, canvas) * cell_x
           y == cell_to_sine_start_y(plotter, canvas, cell_y)
       IN  \E pixel \in Pixels :
              LET a == draw_amplitude(plotter, canvas, pixel)
              IN  /\ cell' = [cell_x |-> cell_x, cell_y |-> cell_y, pixel |-> pixel,
                              x |-> x, y |-> y, a |-> a]
                  /\ sine' = Sine_new(Point(x, y), a, quarter_wavelength(plotter, canvas))
    /\ ppc' = "drawing"
    /\ op' = "draw_thick"
    /\ quarters' = <<>> /\ qi' = 0
    /\ pc' = "idle"
    /\ UNCHANGED <<canvas, curve, slope, current, err, writes, plotter, thickness>>

\* Plotter::draw: both for loops have ended.
PlotDone ==
    /\ ppc = "drawing" /\ qi = 5
    /\ cell.cell_x + 1 >= plotter.source_width
    /\ cell.cell_y + 1 >= plotter.source_height
    /\ ppc' = "done"
    /\ UNCHANGED <<canvas, walkVars, sineVars, plotter, cell, thickness>>

\* A Plotter has been built from a source image and draw(thickness) is called.
InitPlot ==
    /\ \E nw \in GridSizes, nh \in GridSizes,
          source_width \in 1..MaxSourceWidth, source_height \in 1..MaxSourceHeight,
          scale \in Scales, threshold \in Thresholds :
          LET new == Plotter_new(nw, nh, source_width, source_height, scale, threshold)
          IN  /\ canvas = new.canvas
              /\ plotter = [source_width |-> new.source_width,
                            source_height |-> new.source_height,
                            threshold |-> new.threshold]
    /\ thickness \in 0..MaxThickness
    /\ ppc = "ready"
    /\ cell = NoCell
    /\ sine = NoSine /\ quarters = <<>> /\ qi = 0
    /\ op = "draw_thick"
    /\ pc = "idle"
    /\ curve = NoCurve
    /\ slope = "NorthEast"
    /\ current = NoPoint
    /\ err = "none"
    /\ writes = <<>>
    /\ wave = NoWave /\ wi = 0 /\ periods = 0 /\ wpc = "idle"

NextPlot ==
    \/ PlotCell /\ UNCHANGED waveVars
    \/ PlotDone /\ UNCHANGED waveVars
    \/ SineQuarters /\ UNCHANGED <<plotVars, waveVars>>
    \/ SineNextQuarter /\ UNCHANGED <<plotVars, waveVars>>
    \/ SineDone /\ UNCHANGED <<plotVars, waveVars>>
    \/ ThickBegin /\ UNCHANGED <<sineVars, plotVars, waveVars>>
    \/ ThickStep /\ UNCHANGED <<sineVars, plotVars, waveVars>>
    \/ ThickEnd /\ UNCHANGED <<sineVars, plotVars, waveVars>>

SpecPlot == InitPlot /\ [][NextPlot]_vars

\* ------------------------------------------ SineWave's draws (SpecWave)
\* SineWave::new
SineWave_new(start, amplitude, qwave, num_oscillations) ==
    [start |-> start, amplitude |-> amplitude,
     quarter_wavelength |-> qwave, num_oscillations |-> num_oscillations]

\* draw, lines 64-66 (draw_antialiased, 73-75): the Sine's draw has returned
\* and the for loop has a turn left; the next Sine is built and drawn.
WaveNext ==
    /\ wpc = "drawing" /\ qi = 5
    /\ wi < wave.num_oscillations
    /\ wi' = wi + 1
    /\ periods' = periods + 1
    /\ sine' = Sine_next(sine)
    /\ quarters' = <<>> /\ qi' = 0
    /\ UNCHANGED <<canvas, walkVars, plotVars, wave, wpc>>

\* draw, line 64 then 68: the Sine's draw has returned and the for loop has
\* ended; the SineWave's draw returns.
WaveDone ==
    /\ wpc = "drawing" /\ qi = 5
    /\ wi >= wave.num_oscillations
    /\ periods' = periods + 1
    /\ wpc' = "done"
    /\ UNCHANGED <<canvas, walkVars, sineVars, plotVars, wave, wi>>

\* Width of the canvas a SineWave is drawn on: MaxOscillations + 1 periods
\* from any start fit.
WaveCanvasWidth == CanvasSide + 4 * 3 * (MaxOscillations + 1)
\* The start points of the waves: the two ends of a diagonal of the canvas's
\* left square and its centre.
WaveStarts == {Point(0, 0), Point(MaxCoord \div 2, MaxCoord \div 2), Point(MaxCoord, MaxCoord)}

\* A SineWave has been built and its draw or draw_antialiased is called on a
\* fresh canvas without border; the first Sine has been built (line 62, 71).
\* The anti-aliased waves are flat (amplitude 0): their pixel values are exact.
InitWave ==
    /\ canvas = XYCanvas_new(<<CanvasSide, WaveCanvasWidth>>, <<CanvasSide, WaveCanvasWidth>>)
    /\ op \in {"draw", "draw_antialiased"}
    /\ wave \in {SineWave_new(a, A, W, n) :
                    a \in WaveStarts,
                    A \in IF op = "draw" THEN 0..MaxAmp ELSE {0},
                    W \in QuarterWavelengths,
                    n \in 0..MaxOscillations}
    /\ sine = Sine_new(wave.start, wave.amplitude, wave.quarter_wavelength)
    /\ wi = 0 /\ periods = 0 /\ wpc = "drawing"
    /\ quarters = <<>> /\ qi = 0
    /\ pc = "idle"
    /\ curve = NoCurve
    /\ slope = "NorthEast"
    /\ current = NoPoint
    /\ err = "none"
    /\ writes = <<>>
    /\ thickness = 0
    /\ plotter = NoPlotter /\ cell = NoCell /\ ppc = "idle"

NextWave ==
    \/ WaveNext
    \/ WaveDone
    \/ SineQuarters /\ UNCHANGED <<plotVars, waveVars>>
    \/ SineNextQuarter /\ UNCHANGED <<plotVars, waveVars>>
    \/ SineDone /\ UNCHANGED <<plotVars, waveVars>>
    \/ DrawBegin /\ UNCHANGED <<sineVars, plotVars, waveVars>>
    \/ DrawStep /\ UNCHANGED <<sineVars, plotVars, waveVars>>
    \/ DrawEnd /\ UNCHANGED <<sineVars, plotVars, waveVars>>
    \/ AntialiasedBegin /\ UNCHANGED <<sineVars, plotVars, waveVars>>
    \/ AntialiasedStep /\ UNCHANGED <<sineVars, plotVars, waveVars>>
    \/ AntialiasedEnd /\ UNCHANGED <<sineVars, plotVars, waveVars>>

SpecWave == InitWave /\ [][NextWave]_vars

\* ------------------------------------------------------- claims on one curve
IsLine == curve.kind = "AngledLine"
WrittenPoint(i) == Point(writes[i].x, writes[i].y)
Adjacent8(a, b) == Max2(Abs(a.x - b.x), Abs(a.y - b.y)) = 1
\* max(|dx|, |dy|) between the curve's ends
Extent(c) == Max2(Abs(c.stop.x - c.start.x), Abs(c.stop.y - c.start.y))

\* C1: draw of an AngledLine with start # stop never panics on a canvas that
\* holds both ends; the points it writes start at start, each is 8-adjacent to
\* the one before, the loop is left within max(|dx|,|dy|) turns, and draw
\* returns only with current = stop, stop being the last of exactly
\* max(|dx|,|dy|) + 1 points written.
C1_LineWalk ==
    (op = "draw" /\ IsLine /\ curve.start # curve.stop) =>
        /\ pc # "panic"
        /\ Len(writes) <= Extent(curve) + 1
        /\ (writes # <<>> => WrittenPoint(1) = curve.start)
        /\ \A i \in 1..(Len(writes) - 1) : Adjacent8(WrittenPoint(i), WrittenPoint(i + 1))
        /\ (pc = "loop" => Len(writes) <= Extent(curve))
        /\ (pc = "done" =>
              /\ current = curve.stop
              /\ Len(writes) = Extent(curve) + 1
              /\ WrittenPoint(Len(writes)) = curve.stop)

\* C1's case: a line that is neither axis-parallel nor diagonal has been drawn to its end.
C1_Witness ==
    /\ op = "draw" /\ IsLine /\ pc = "done"
    /\ curve.dx # 0 /\ curve.dy # 0 /\ Abs(curve.dx) # Abs(curve.dy)
    /\ Len(writes) >= 4

\* C2: the slope a draw computes is decided by the signs of stop.x - start.x
\* and stop.y - start.y: both positive NorthEast, x negative and y positive
\* NorthWest, x positive and y negative SouthEast, both negative SouthWest;
\* so it is for the four stops around (10,10).
C2_SlopeBetween ==
    /\ pc # "ready" =>
        LET dx == curve.stop.x - curve.start.x
            dy == curve.stop.y - curve.start.y
        IN  /\ (dx > 0 /\ dy > 0 => slope = "NorthEast")
            /\ (dx < 0 /\ dy > 0 => slope = "NorthWest")
            /\ (dx > 0 /\ dy < 0 => slope = "SouthEast")
            /\ (dx < 0 /\ dy < 0 => slope = "SouthWest")
    /\ Slope_between(Point(10, 10), Point(11, 11)) = "NorthEast"
    /\ Slope_between(Point(10, 10), Point(9, 11)) = "NorthWest"
    /\ Slope_between(Point(10, 10), Point(11, 9)) = "SouthEast"
    /\ Slope_between(Point(10, 10), Point(9, 9)) = "SouthWest"

\* C2's case: a draw has computed the slope of a curve that goes up and to the left.
C2_Witness ==
    /\ pc = "loop"
    /\ curve.stop.x < curve.start.x /\ curve.stop.y > curve.start.y
    /\ slope = "NorthWest"

\* The three points an anti-aliased turn wrote last, when it wrote all three.
LastThree == <<WrittenPoint(Len(writes) - 2), WrittenPoint(Len(writes) - 1),
               WrittenPoint(Len(writes))>>
TurnWritten ==
    op = "draw_antialiased" /\ err = "none" /\ pc \in {"loop", "done"} /\ Len(writes) >= 4

\* C3: Slope::next gives three points in the order fixed for the slope, each
\* 0 or 1 away from the point on each axis, in the slope's direction, none the
\* point itself; an anti-aliased turn writes them in that order.
C3_SlopeNext ==
    LET x == current.x
        y == current.y
        n == Slope_next(slope, current)
        sx == IF slope \in {"NorthEast", "SouthEast"} THEN 1 ELSE -1
        sy == IF slope \in {"NorthEast", "NorthWest"} THEN 1 ELSE -1
    IN  /\ Len(n) = 3
        /\ slope = "NorthEast" => n = <<Point(x, y + 1), Point(x + 1, y + 1), Point(x + 1, y)>>
        /\ slope = "SouthEast" => n = <<Point(x + 1, y), Point(x + 1, y - 1), Point(x, y - 1)>>
        /\ slope = "SouthWest" => n = <<Point(x, y - 1), Point(x - 1, y - 1), Point(x - 1, y)>>
        /\ slope = "NorthWest" => n = <<Point(x - 1, y), Point(x - 1, y + 1), Point(x, y + 1)>>
        /\ \A i \in 1..3 :
              /\ n[i] # current
              /\ (n[i].x - x) * sx \in {0, 1}
              /\ (n[i].y - y) * sy \in {0, 1}
        /\ Slope_next("NorthEast", Point(0, 0)) = <<Point(0, 1), Point(1, 1), Point(1, 0)>>
        /\ TurnWritten =>
              \E p \in {Point(current.x - dx, current.y - dy) : dx \in {0, sx}, dy \in {0, sy}} :
                  /\ p # current
                  /\ LastThree = Slope_next(slope, p)

\* C3's case: an anti-aliased draw going down and to the left has written a turn's candidates.
C3_Witness == TurnWritten /\ slope = "SouthWest" /\ pc = "loop"

\* The value the anti-aliased draw wrote at its i-th write, against the
\* equation at that point.  An f64 equation may be zero when its fixed-point
\* value is within Tol of zero.
AAWrites == IF op = "draw_antialiased" THEN 1..Len(writes) ELSE {}
EqAt(i) == Abs(equation(curve, WrittenPoint(i)))
TolAt(i) == Tol(curve, WrittenPoint(i))
OnCurve(i) == EqAt(i) <= TolAt(i)

\* The fixed point cannot tell on which side of an integer the f64 |equation| is.
Borderline(i) ==
    Max2(EqAt(i) - TolAt(i), 0) \div Scale # (EqAt(i) + TolAt(i)) \div Scale

C9_FailFast ==
    (curve.start = curve.stop \/ (op = "draw_antialiased" /\ threshold_to_u32(curve) = 0)) =>
        /\ writes = <<>>
        /\ pc # "done"

\* ---------------------------------------------------------- claims on a Sine
\* C5: the four quarters of a Sine are First, Second, Third, Fourth, the first
\* starts at the Sine's start, each starts where the one before stops, and the
\* Fourth stops at (start.x + 4W, start.y), which is Sine::stop().
C5_QuartersChain ==
    quarters # <<>> =>
        /\ Len(quarters) = 4
        /\ <<quarters[1].quadrant, quarters[2].quadrant, quarters[3].quadrant,
             quarters[4].quadrant>> = <<"First", "Second", "Third", "Fourth">>
        /\ quarters[1].start = sine.start
        /\ \A i \in 1..3 : quarters[i].stop = quarters[i + 1].start
        /\ \A i \in 1..4 : quarters[i].stop.x = quarters[i].start.x + sine.quarter_wavelength
        /\ quarters[4].stop = Point(sine.start.x + 4 * sine.quarter_wavelength, sine.start.y)
        /\ quarters[4].stop = Sine_stop(sine)

\* C5's case: the quarters of a Sine whose amplitude exceeds its start height
\* (the Third quarter's stop wraps below zero) have been built.
C5_Witness ==
    /\ quarters # <<>>
    /\ sine.amplitude > sine.start.y
    /\ quarters[3].stop.y < 0

\* ------------------------------------------------------ claims on a Plotter
GridWidth == plotter.source_width
GridHeight == plotter.source_height
\* A cell's locals have been computed.
CellComputed == ppc \in {"drawing", "done"}
\* Plotter::draw has just computed a cell's locals and has yet to draw its wave.
CellJustComputed == ppc = "drawing" /\ qi = 0 /\ pc = "idle"

\* C6: the inner width Plotter::new gives the canvas is a positive multiple of
\* 4 * gridWidth, plus 1; cellWidth * gridWidth <= innerWidth - 1, and four
\* quarter wavelengths make a cell width; a cell's wave is built with that
\* quarter wavelength at x = cellWidth * cell_x.
C6_InnerWidth ==
    ppc # "idle" =>
        /\ canvas.iw >= 4 * GridWidth + 1
        /\ (canvas.iw - 1) % (4 * GridWidth) = 0
        /\ cell_width(plotter, canvas) = (canvas.iw - 1) \div GridWidth
        /\ cell_width(plotter, canvas) * GridWidth <= canvas.iw - 1
        /\ quarter_wavelength(plotter, canvas) = cell_width(plotter, canvas) \div 4
        /\ 4 * quarter_wavelength(plotter, canvas) = cell_width(plotter, canvas)
        /\ CellComputed =>
              /\ sine.quarter_wavelength * 4 * GridWidth = canvas.iw - 1
              /\ sine.start.x = cell.cell_x * 4 * sine.quarter_wavelength

\* C6's case: the second cell of a row of a two-cell-wide grid; the source is
\* narrower than the canvas, whose inner width is 4 * 2 + 1.
C6_Witness ==
    /\ CellComputed
    /\ GridWidth = 2 /\ cell.cell_x = 1
    /\ canvas.iw = 9
    /\ sine.quarter_wavelength = 1 /\ sine.start.x = 4

\* The draw of the 1 x 1 all-white source with scale 100, a 1 x 1 grid, no
\* brightness ceiling and thickness 1: Plotter::new makes a 5 x 5 canvas without
\* border.
C7_Scenario ==
    /\ GridWidth = 1 /\ GridHeight = 1
    /\ canvas.iw = 5 /\ canvas.ih = 5 /\ canvas.fw = 5 /\ canvas.fh = 5
    /\ plotter.threshold = 255
    /\ thickness = 1
    /\ CellComputed /\ cell.pixel = 255

\* C7 as claimed: in that draw the amplitude is 0, no pixel write falls outside
\* the canvas buffer (put_pixel does not panic), and when draw has returned the
\* pixels written are those of the row of startY, across the inner width.
C7_FlatLine ==
    C7_Scenario =>
        /\ cell.a = 0
        /\ pc # "panic"
        /\ ppc = "done" =>
              DOMAIN canvas.image =
                  {<<col, canvas.fh - 1 - cell.y - canvas.oh>> :
                      col \in canvas.ow..(canvas.ow + canvas.iw - 1)}

\* The amplitude of a cell of row cy whose pixel is p, and the start height of row cy.
AmplitudeOf(p) == draw_amplitude(plotter, canvas, p)
StartY(cy) == cell_to_sine_start_y(plotter, canvas, cy)
InsideInner(cy, p) ==
    /\ AmplitudeOf(p) <= max_amplitude(plotter, canvas)
    /\ StartY(cy) - AmplitudeOf(p) >= 0
    /\ StartY(cy) + AmplitudeOf(p) <= canvas.ih - 1

\* C8: for every row and every pixel value the wave stays inside the inner
\* region (startY - amplitude >= 0, startY + amplitude <= innerHeight - 1, with
\* amplitude <= maxAmplitude), and so does the wave of every cell drawn. The
\* geometry is fixed by Plotter::new, so the rows and pixel values are
\* enumerated once per cell, when draw has computed the cell's locals.
C8_InsideInner ==
    /\ CellJustComputed =>
          \A cy \in 0..(GridHeight - 1) : \A p \in 0..255 : InsideInner(cy, p)
    /\ CellComputed =>
          /\ cell.y = StartY(cell.cell_y)
          /\ cell.a <= max_amplitude(plotter, canvas)
          /\ cell.y - cell.a >= 0
          /\ cell.y + cell.a <= canvas.ih - 1

\* C10: a cell's amplitude is maxAmplitude - maxAmplitude * min(p, t) / 255;
\* for every pixel value it lies in 0..maxAmplitude and does not grow with p; it
\* is maxAmplitude for p = 0, and 0 for p = 255 when t = 255.
C10_Amplitude ==
    LET amax == max_amplitude(plotter, canvas)
        t == plotter.threshold
    IN  /\ CellJustComputed =>
              /\ \A p \in 0..255 :
                    /\ AmplitudeOf(p) = amax - (amax * Min2(p, t)) \div 255
                    /\ AmplitudeOf(p) \in 0..amax
                    /\ p < 255 => AmplitudeOf(p + 1) <= AmplitudeOf(p)
              /\ AmplitudeOf(0) = amax
              /\ t = 255 => AmplitudeOf(255) = 0
        /\ CellComputed =>
              /\ cell.a = amax - (amax * Min2(cell.pixel, t)) \div 255
              /\ cell.a \in 0..amax
              /\ cell.pixel = 0 => cell.a = amax
              /\ (cell.pixel = 255 /\ t = 255) => cell.a = 0
              /\ sine.amplitude = cell.a

\* C10's case: a white cell under a ceiling of 128 got an amplitude strictly
\* between 0 and a maxAmplitude of at least 2.
C10_Witness ==
    /\ CellComputed
    /\ cell.pixel = 255 /\ plotter.threshold = 128
    /\ max_amplitude(plotter, canvas) >= 2
    /\ cell.a > 0 /\ cell.a < max_amplitude(plotter, canvas)

\* ------------------------------------------------ claims on the next point
AbsEq(p) == Abs(equation(curve, p))
\* chosen is the candidate of cands with the smallest |equation|, the first of
\* them where several share it: no candidate's value is below the chosen one's
\* (by more than the rounding the two carry), and an earlier candidate's value,
\* when both are exact, is above it.
FirstSmallest(cands, chosen) ==
    \E i \in 1..3 :
        /\ chosen = cands[i]
        /\ \A j \in 1..3 :
              /\ AbsEq(cands[i]) - Tol(curve, cands[i]) <= AbsEq(cands[j]) + Tol(curve, cands[j])
              /\ (j < i /\ Tol(curve, cands[i]) + Tol(curve, cands[j]) = 0)
                    => AbsEq(cands[j]) > AbsEq(cands[i])

\* One step of a walk, as C12 has it.
C12_Step ==
    /\ (pc = "loop" /\ pc' = "loop" /\ current' # current)
          => FirstSmallest(Slope_next(slope, current), current')
    /\ pc = "loop"
          => (slope' = slope /\ slope = Slope_between(curve.start, curve.stop))

\* C12: at every step of draw and draw_antialiased the next point is the
\* candidate of Slope::next(current) with the smallest |equation|, the first in
\* Slope::next's order when several share it; the slope is the one computed
\* from start and stop and does not change during the walk.
C12_FirstSmallest == [][C12_Step]_vars

\* C12's case: a draw of a line has just stepped to a candidate that shares the
\* smallest |equation| with a later candidate.
C12_Witness ==
    /\ op = "draw" /\ IsLine /\ pc = "loop" /\ Len(writes) >= 1
    /\ LET cands == Slope_next(slope, WrittenPoint(Len(writes)))
       IN  \E i \in 1..2 : \E j \in (i + 1)..3 :
              /\ current = cands[i]
              /\ AbsEq(cands[i]) = AbsEq(cands[j])
              /\ \A k \in 1..3 : AbsEq(cands[i]) <= AbsEq(cands[k])

\* --------------------------------------------- claims on equal coordinates
EastClasses == {"NorthEast", "SouthEast"}
WestClasses == {"NorthWest", "SouthWest"}
NorthClasses == {"NorthEast", "NorthWest"}
SouthClasses == {"SouthEast", "SouthWest"}

\* C13 as claimed: the slope a draw computes for a curve whose start and stop
\* have the same x is an East class, and for the same y a North class.
C13_Original ==
    pc \in {"loop", "done"} =>
        /\ curve.start.x = curve.stop.x => slope \in EastClasses
        /\ curve.start.y = curve.stop.y => slope \in NorthClasses

\* C13, amended: the slope a draw computes for a curve whose start and stop
\* have the same x is a West class, and for the same y a South class; the
\* classes are East only for start.x < stop.x and North only for
\* start.y < stop.y.
C13_EqualCoordinates ==
    pc \in {"loop", "done"} =>
        /\ curve.start.x = curve.stop.x => slope \in WestClasses
        /\ curve.start.y = curve.stop.y => slope \in SouthClasses
        /\ slope \in EastClasses <=> curve.start.x < curve.stop.x
        /\ slope \in NorthClasses <=> curve.start.y < curve.stop.y

\* C13's case: the draw of a vertical line going up has returned, walked with
\* the slope NorthWest.
C13_Witness ==
    /\ pc = "done" /\ IsLine
    /\ curve.start.x = curve.stop.x /\ curve.start.y < curve.stop.y
    /\ slope = "NorthWest"
    /\ Len(writes) >= 2

\* ----------------------------------------------------- claims on a SineWave
\* The rightmost cartesian column the canvas has a written pixel in.
LastColumn ==
    CHOOSE x \in {q[1] - canvas.ow : q \in DOMAIN canvas.image} :
        \A q \in DOMAIN canvas.image : q[1] - canvas.ow <= x

\* C11: a SineWave's draw or draw_antialiased with num_oscillations = n draws
\* exactly n periods, each Sine starting where the one before stopped, and the
\* last pixel column it has drawn is start.x + 4 * quarter_wavelength * n.
C11_Periods ==
    /\ wpc # "idle" =>
          /\ sine.start.x = wave.start.x + 4 * wave.quarter_wavelength * wi
          /\ sine.start.y = wave.start.y
          /\ sine.amplitude = wave.amplitude
          /\ sine.quarter_wavelength = wave.quarter_wavelength
    /\ wpc = "done" =>
          /\ periods = wave.num_oscillations
          /\ LastColumn = wave.start.x + 4 * wave.quarter_wavelength * wave.num_oscillations

====
